---- MODULE Spec2Model ----
(***************************************************************************)
(* Model of the ink! contract Erc20 (src/lib.rs): a token ledger with      *)
(* balances, allowances, a total supply and an issuer, driven by the       *)
(* messages transfer, approve, transfer_from, burn and issue.              *)
(*                                                                         *)
(* Balance is an unsigned fixed-width integer (u128 in the source).  The   *)
(* model keeps the width, scaled down to BalanceBits bits.  The source     *)
(* adds with the plain `+` operator: a build with overflow checks (debug,  *)
(* tests) panics on overflow, a build without them (release default)       *)
(* wraps modulo 2^width.  Both builds are modelled; overflow_checks is     *)
(* fixed in Init.  A panicking message traps: ink! writes the storage      *)
(* back only after the message returns, so a trapped call commits nothing  *)
(* and emits nothing.                                                      *)
(***************************************************************************)
EXTENDS Integers, Sequences, FiniteSets, TLC

\* Number of bits of the model's Balance type (u128 in the source).
BalanceBits == 2

\* Messages called after construction.
MaxCalls == 3

Modulus == 2 ^ BalanceBits

MaxBalance == Modulus - 1

Balance == 0 .. MaxBalance

\* The amounts passed to the constructor and to the messages.
Amount == {0, 1, MaxBalance}

\* ink_env::test::default_accounts: the accounts the tests use.
AccountId == {"alice", "bob", "charlie"}

\* The account that instantiates the contract: the default caller of the
\* tests.  Account ids are opaque to the contract, which only compares them.
Deployer == "alice"

Error == {"InsufficentBalance", "InsufficentAllowance", "NotIssuer"}

VARIABLES
    overflow_checks,  \* TRUE: `+`/`-` panic out of range; FALSE: they wrap
    issuer,           \* Erc20.issuer
    total_supply,     \* Erc20.total_supply
    balances,         \* Erc20.balances: AccountId -> Balance, sparse
    allowances,       \* Erc20.allowances: (owner, spender) -> Balance, sparse
    events_count,     \* recorded_events().count()
    last_event,       \* the event emitted last
    op,               \* the message called last ("new" after construction)
    result,           \* what it returned: "Ok", an Error, or "Panic" (trap)
    arith,            \* its arithmetic: "exact", "overflow" or "underflow"
    creator,          \* history: the caller of the constructor
    calls,            \* history: number of messages called
    ok_calls,         \* history: number of messages that returned Ok
    last_ok,          \* history: caller and arguments of the last call
                      \* that returned Ok (of new, after construction)
    overflowed,       \* history: some call has stored a wrapped sum
    outstanding       \* history: (owner, spender) -> total value approved
                      \* by owner for spender minus total value drawn by
                      \* spender's transfer_from calls against owner

vars == <<overflow_checks, issuer, total_supply, balances, allowances,
          events_count, last_event, op, result, arith, creator, calls,
          ok_calls, last_ok, overflowed, outstanding>>

ledger == <<issuer, total_supply, balances, allowances>>

----------------------------------------------------------------------------
\* StorageHashMap

\* StorageHashMap::new()
EmptyMap == [k \in {} |-> 0]

\* StorageHashMap::insert(k, v)
Insert(m, k, v) == [x \in (DOMAIN m) \cup {k} |-> IF x = k THEN v ELSE m[x]]

\* *m.get(&k).unwrap_or(&0)
GetOrZero(m, k) == IF k \in DOMAIN m THEN m[k] ELSE 0

\* Erc20::balance_of on a given balances map
balance_in(bal, owner) == GetOrZero(bal, owner)

\* Erc20::balance_of
balance_of(owner) == balance_in(balances, owner)

\* Erc20::allowance
allowance(owner, spender) == GetOrZero(allowances, <<owner, spender>>)

----------------------------------------------------------------------------
\* Balance arithmetic

\* a + b leaves the range of Balance
AddOverflows(a, b) == a + b > MaxBalance

\* a + b as an unchecked build computes it
WrappingAdd(a, b) == (a + b) % Modulus

\* a - b leaves the range of Balance
SubUnderflows(a, b) == a < b

\* a - b as an unchecked build computes it
WrappingSub(a, b) == (a + Modulus - b) % Modulus

----------------------------------------------------------------------------
\* Events

Create(from, ts) == [kind |-> "Create", from |-> from, total_supply |-> ts]

Transfer(from, to, value) ==
    [kind |-> "Transfer", from |-> from, to |-> to, value |-> value]

Approval(owner, spender, value) ==
    [kind |-> "Approval", owner |-> owner, spender |-> spender, value |-> value]

TransferFrom(from, owner, to, value) ==
    [kind |-> "TransferFrom", from |-> from, owner |-> owner, to |-> to,
     value |-> value]

Burn(from, value) == [kind |-> "Burn", from |-> from, value |-> value]

Issue(iss, value) == [kind |-> "Issue", issuer |-> iss, value |-> value]

----------------------------------------------------------------------------
\* How a message ends

\* return Err(e): nothing written, nothing emitted
ReturnErr(o, e) ==
    /\ op' = o
    /\ result' = e
    /\ arith' = "exact"
    /\ calls' = calls + 1
    /\ UNCHANGED <<overflow_checks, ledger, events_count, last_event,
                   creator, ok_calls, last_ok, overflowed, outstanding>>

\* a checked `+` or `-` panics: the call traps, storage is not written back
Trap(o, ar) ==
    /\ op' = o
    /\ result' = "Panic"
    /\ arith' = ar
    /\ calls' = calls + 1
    /\ UNCHANGED <<overflow_checks, ledger, events_count, last_event,
                   creator, ok_calls, last_ok, overflowed, outstanding>>

\* a call: who made it, with which accounts and which value
Call(who, accounts, value) ==
    [caller |-> who, accounts |-> accounts, value |-> value]

\* Ok(()) after the writes
ReturnOk(o, call, ar, ts, bal, alw) ==
    /\ op' = o
    /\ last_ok' = call
    /\ result' = "Ok"
    /\ arith' = ar
    /\ total_supply' = ts
    /\ balances' = bal
    /\ allowances' = alw
    /\ calls' = calls + 1
    /\ ok_calls' = ok_calls + 1
    /\ overflowed' = (overflowed \/ ar = "overflow")
    /\ UNCHANGED <<overflow_checks, issuer, creator>>

\* Self::env().emit_event(ev)
emit_event(ev) ==
    /\ events_count' = events_count + 1
    /\ last_event' = ev

\* history of a successful approve: value more approved by owner for spender
Approved(owner, spender, value) ==
    outstanding' = [outstanding EXCEPT ![<<owner, spender>>] = @ + value]

\* history of a successful transfer_from: value more drawn by spender
\* against owner
Drawn(owner, spender, value) ==
    outstanding' = [outstanding EXCEPT ![<<owner, spender>>] = @ - value]

\* what the arithmetic of a call did, given that one of its operations left
\* the range
Arith(overflow, underflow) ==
    IF overflow THEN "overflow" ELSE IF underflow THEN "underflow" ELSE "exact"

----------------------------------------------------------------------------
\* Erc20::new without the insert of the creator's balance.
Init_credits_nobody ==
    /\ overflow_checks \in BOOLEAN
    /\ \E supply \in Amount :
        /\ issuer = Deployer
        /\ total_supply = supply
        /\ balances = EmptyMap
        /\ allowances = EmptyMap
        /\ events_count = 1
        /\ last_event = Create(Deployer, supply)
    /\ creator = Deployer
    /\ op = "new"
    /\ result = "Ok"
    /\ arith = "exact"
    /\ calls = 0
    /\ ok_calls = 0
    /\ last_ok = Call(Deployer, <<>>, total_supply)
    /\ overflowed = FALSE
    /\ outstanding = [p \in AccountId \X AccountId |-> 0]

\* Erc20::new, called by Deployer with any supply, under either build
Init ==
    /\ overflow_checks \in BOOLEAN
    /\ \E supply \in Amount :
        /\ issuer = Deployer
        /\ total_supply = supply
        /\ balances = Insert(EmptyMap, Deployer, supply)
        /\ allowances = EmptyMap
        /\ events_count = 1
        /\ last_event = Create(Deployer, supply)
    /\ creator = Deployer
    /\ op = "new"
    /\ result = "Ok"
    /\ arith = "exact"
    /\ calls = 0
    /\ ok_calls = 0
    /\ last_ok = Call(Deployer, <<>>, total_supply)
    /\ overflowed = FALSE
    /\ outstanding = [p \in AccountId \X AccountId |-> 0]

\* transfer_help comparing with `<=` where the source has `<`.
transfer_help_strict(from, to, value) ==
    LET from_balance == balance_of(from)
        debited == Insert(balances, from, from_balance - value)
        to_balance == balance_in(debited, to)
        overflow == AddOverflows(to_balance, value)
    IN  IF from_balance <= value
        THEN ReturnErr("transfer", "InsufficentBalance")
        ELSE IF overflow /\ overflow_checks
        THEN Trap("transfer", "overflow")
        ELSE /\ ReturnOk("transfer", Call(from, <<to>>, value),
                         Arith(overflow, FALSE), total_supply,
                         Insert(debited, to, WrappingAdd(to_balance, value)),
                         allowances)
             /\ emit_event(Transfer(from, to, value))
             /\ UNCHANGED outstanding

\* Erc20::transfer_help
transfer_help(from, to, value) ==
    LET from_balance == balance_of(from)
        debited == Insert(balances, from, from_balance - value)
        to_balance == balance_in(debited, to)
        overflow == AddOverflows(to_balance, value)
    IN  IF from_balance < value
        THEN ReturnErr("transfer", "InsufficentBalance")
        ELSE IF overflow /\ overflow_checks
        THEN Trap("transfer", "overflow")
        ELSE /\ ReturnOk("transfer", Call(from, <<to>>, value),
                         Arith(overflow, FALSE), total_supply,
                         Insert(debited, to, WrappingAdd(to_balance, value)),
                         allowances)
             /\ emit_event(Transfer(from, to, value))
             /\ UNCHANGED outstanding

\* approve_help as the conventional ERC-20 approve: the owner keeps the
\* balance.
approve_help_keeps_balance(owner, spender, value) ==
    LET owner_balance == balance_of(owner)
        allowed == allowance(owner, spender)
        overflow == AddOverflows(allowed, value)
    IN  IF owner_balance < value
        THEN ReturnErr("approve", "InsufficentBalance")
        ELSE IF overflow /\ overflow_checks
        THEN Trap("approve", "overflow")
        ELSE /\ ReturnOk("approve", Call(owner, <<spender>>, value),
                         Arith(overflow, FALSE), total_supply,
                         Insert(balances, owner, owner_balance),
                         Insert(allowances, <<owner, spender>>,
                                WrappingAdd(allowed, value)))
             /\ emit_event(Approval(owner, spender, value))
             /\ Approved(owner, spender, value)

\* approve_help emitting Approval with owner and spender exchanged.
approve_help_event_swapped(owner, spender, value) ==
    LET owner_balance == balance_of(owner)
        debited == Insert(balances, owner, owner_balance - value)
        allowed == allowance(owner, spender)
        overflow == AddOverflows(allowed, value)
    IN  IF owner_balance < value
        THEN ReturnErr("approve", "InsufficentBalance")
        ELSE IF overflow /\ overflow_checks
        THEN Trap("approve", "overflow")
        ELSE /\ ReturnOk("approve", Call(owner, <<spender>>, value),
                         Arith(overflow, FALSE), total_supply,
                         debited,
                         Insert(allowances, <<owner, spender>>,
                                WrappingAdd(allowed, value)))
             /\ emit_event(Approval(spender, owner, value))
             /\ Approved(owner, spender, value)

\* Erc20::approve_help
approve_help(owner, spender, value) ==
    LET owner_balance == balance_of(owner)
        debited == Insert(balances, owner, owner_balance - value)
        allowed == allowance(owner, spender)
        overflow == AddOverflows(allowed, value)
    IN  IF owner_balance < value
        THEN ReturnErr("approve", "InsufficentBalance")
        ELSE IF overflow /\ overflow_checks
        THEN Trap("approve", "overflow")
        ELSE /\ ReturnOk("approve", Call(owner, <<spender>>, value),
                         Arith(overflow, FALSE), total_supply,
                         debited,
                         Insert(allowances, <<owner, spender>>,
                                WrappingAdd(allowed, value)))
             /\ emit_event(Approval(owner, spender, value))
             /\ Approved(owner, spender, value)

\* transfer_from_help crediting the recipient before it checks the
\* allowance.
transfer_from_help_credits_first(from, owner, to, value) ==
    LET allowed == allowance(owner, from)
        drawn == Insert(allowances, <<owner, from>>, allowed - value)
        to_balance == balance_of(to)
        overflow == AddOverflows(to_balance, value)
        credited == Insert(balances, to, WrappingAdd(to_balance, value))
    IN  IF overflow /\ overflow_checks
        THEN Trap("transfer_from", "overflow")
        ELSE IF allowed < value
        THEN /\ op' = "transfer_from"
             /\ result' = "InsufficentAllowance"
             /\ arith' = Arith(overflow, FALSE)
             /\ calls' = calls + 1
             /\ balances' = credited
             /\ UNCHANGED <<overflow_checks, issuer, total_supply, allowances,
                            events_count, last_event, creator, ok_calls,
                            last_ok, overflowed, outstanding>>
        ELSE /\ ReturnOk("transfer_from", Call(from, <<owner, to>>, value),
                         Arith(overflow, FALSE),
                         total_supply, credited, drawn)
             /\ emit_event(TransferFrom(from, owner, to, value))
             /\ Drawn(owner, from, value)

\* transfer_from_help as the conventional ERC-20 transfer_from: the value is
\* also taken from the owner's balance.
transfer_from_help_debits_owner(from, owner, to, value) ==
    LET allowed == allowance(owner, from)
        drawn == Insert(allowances, <<owner, from>>, allowed - value)
        debited == Insert(balances, owner,
                          WrappingSub(balance_of(owner), value))
        to_balance == balance_in(debited, to)
        overflow == AddOverflows(to_balance, value)
    IN  IF allowed < value
        THEN ReturnErr("transfer_from", "InsufficentAllowance")
        ELSE IF overflow /\ overflow_checks
        THEN Trap("transfer_from", "overflow")
        ELSE /\ ReturnOk("transfer_from", Call(from, <<owner, to>>, value),
                         Arith(overflow, FALSE),
                         total_supply,
                         Insert(debited, to, WrappingAdd(to_balance, value)),
                         drawn)
             /\ emit_event(TransferFrom(from, owner, to, value))
             /\ Drawn(owner, from, value)

\* Erc20::transfer_from_help
transfer_from_help(from, owner, to, value) ==
    LET allowed == allowance(owner, from)
        drawn == Insert(allowances, <<owner, from>>, allowed - value)
        to_balance == balance_of(to)
        overflow == AddOverflows(to_balance, value)
    IN  IF allowed < value
        THEN ReturnErr("transfer_from", "InsufficentAllowance")
        ELSE IF overflow /\ overflow_checks
        THEN Trap("transfer_from", "overflow")
        ELSE /\ ReturnOk("transfer_from", Call(from, <<owner, to>>, value),
                         Arith(overflow, FALSE),
                         total_supply,
                         Insert(balances, to, WrappingAdd(to_balance, value)),
                         drawn)
             /\ emit_event(TransferFrom(from, owner, to, value))
             /\ Drawn(owner, from, value)

\* burn_help without its emit_event.
burn_help_emits_nothing(from, value) ==
    LET from_balance == balance_of(from)
        debited == Insert(balances, from, from_balance - value)
        underflow == SubUnderflows(total_supply, value)
    IN  IF from_balance < value
        THEN ReturnErr("burn", "InsufficentBalance")
        ELSE IF underflow /\ overflow_checks
        THEN Trap("burn", "underflow")
        ELSE /\ ReturnOk("burn", Call(from, <<>>, value),
                         Arith(FALSE, underflow),
                         WrappingSub(total_supply, value), debited, allowances)
             /\ UNCHANGED <<events_count, last_event, outstanding>>

\* burn_help without the write of total_supply.
burn_help_keeps_supply(from, value) ==
    LET from_balance == balance_of(from)
        debited == Insert(balances, from, from_balance - value)
    IN  IF from_balance < value
        THEN ReturnErr("burn", "InsufficentBalance")
        ELSE /\ ReturnOk("burn", Call(from, <<>>, value),
                         "exact", total_supply, debited, allowances)
             /\ emit_event(Burn(from, value))
             /\ UNCHANGED outstanding

\* Erc20::burn_help
burn_help(from, value) ==
    LET from_balance == balance_of(from)
        debited == Insert(balances, from, from_balance - value)
        underflow == SubUnderflows(total_supply, value)
    IN  IF from_balance < value
        THEN ReturnErr("burn", "InsufficentBalance")
        ELSE IF underflow /\ overflow_checks
        THEN Trap("burn", "underflow")
        ELSE /\ ReturnOk("burn", Call(from, <<>>, value),
                         Arith(FALSE, underflow),
                         WrappingSub(total_supply, value), debited, allowances)
             /\ emit_event(Burn(from, value))
             /\ UNCHANGED outstanding

\* issue_help assigning the issuer where it should compare it.
issue_help_assigns_issuer(from, value) ==
    LET from_balance == balance_of(from)
        overflow == \/ AddOverflows(from_balance, value)
                    \/ AddOverflows(total_supply, value)
    IN  IF overflow /\ overflow_checks
        THEN Trap("issue", "overflow")
        ELSE /\ op' = "issue"
             /\ result' = "Ok"
             /\ last_ok' = Call(from, <<>>, value)
             /\ arith' = Arith(overflow, FALSE)
             /\ issuer' = from
             /\ total_supply' = WrappingAdd(total_supply, value)
             /\ balances' = Insert(balances, from,
                                   WrappingAdd(from_balance, value))
             /\ calls' = calls + 1
             /\ ok_calls' = ok_calls + 1
             /\ emit_event(Issue(from, value))
             /\ overflowed' = (overflowed \/ overflow)
             /\ UNCHANGED <<overflow_checks, allowances, creator, outstanding>>

\* Erc20::issue_help
issue_help(from, value) ==
    LET from_balance == balance_of(from)
        overflow == \/ AddOverflows(from_balance, value)
                    \/ AddOverflows(total_supply, value)
    IN  IF from # issuer
        THEN ReturnErr("issue", "NotIssuer")
        ELSE IF overflow /\ overflow_checks
        THEN Trap("issue", "overflow")
        ELSE /\ ReturnOk("issue", Call(from, <<>>, value),
                         Arith(overflow, FALSE),
                         WrappingAdd(total_supply, value),
                         Insert(balances, from,
                                WrappingAdd(from_balance, value)),
                         allowances)
             /\ emit_event(Issue(from, value))
             /\ UNCHANGED outstanding

\* Erc20::transfer: the caller is Self::env().caller()
transfer ==
    /\ calls < MaxCalls
    /\ \E who \in AccountId, to \in AccountId, value \in Amount :
        transfer_help(who, to, value)

\* Erc20::approve
approve ==
    /\ calls < MaxCalls
    /\ \E who \in AccountId, spender \in AccountId, value \in Amount :
        approve_help(who, spender, value)

\* Erc20::transfer_from
transfer_from ==
    /\ calls < MaxCalls
    /\ \E who \in AccountId, from \in AccountId, to \in AccountId,
          value \in Amount :
        transfer_from_help(who, from, to, value)

\* Erc20::burn
burn ==
    /\ calls < MaxCalls
    /\ \E who \in AccountId, value \in Amount : burn_help(who, value)

\* Erc20::issue
issue ==
    /\ calls < MaxCalls
    /\ \E who \in AccountId, value \in Amount : issue_help(who, value)

Next ==
    \/ transfer
    \/ approve
    \/ transfer_from
    \/ burn
    \/ issue

Spec == Init /\ [][Next]_vars

----------------------------------------------------------------------------
\* Sums over the sparse maps

RECURSIVE SumOver(_, _)
SumOver(m, keys) ==
    IF keys = {} THEN 0
    ELSE LET k == CHOOSE x \in keys : TRUE
         IN  m[k] + SumOver(m, keys \ {k})

\* balances.values().sum(), allowances.values().sum()
SumValues(m) == SumOver(m, DOMAIN m)

----------------------------------------------------------------------------
\* The ledger fields a caller can observe through the storage
Unchanged_ledger == UNCHANGED <<issuer, total_supply, balances, allowances>>

C2_FailureChangesNothing ==
    [][result' \in Error =>
        /\ Unchanged_ledger
        /\ UNCHANGED <<events_count, last_event>>]_vars

\* C2 witness: a call has failed in a state that holds several balance
\* entries and an allowance.
C2_Witness ==
    /\ result = "InsufficentAllowance"
    /\ SumValues(allowances) > 0
    /\ Cardinality(DOMAIN balances) > 1

\* C3: no call panics and no addition of a call leaves the range of Balance.
C3_NoOverflow == result # "Panic" /\ arith # "overflow"

\* C4: no subtraction of a call has a subtrahend larger than the value it is
\* subtracted from.
C4_NoUnderflow == arith # "underflow"

\* C5: the number of recorded events is 1 (construction) plus the number of
\* messages that returned Ok.
C5_OneEventPerSuccess == events_count = 1 + ok_calls

\* C5 witness: successful and failed calls have both happened.
C5_Witness ==
    /\ ok_calls >= 2
    /\ calls > ok_calls
    /\ events_count = 3

\* C6: issue succeeds exactly when the caller is the issuer, and then adds
\* value to the caller's balance and to total_supply; by any other caller it
\* returns NotIssuer and leaves total_supply and the balances unchanged.
C6_IssueByIssuerAddsValue ==
    [][\A who \in AccountId, value \in Amount :
        issue_help(who, value) =>
            IF who = issuer
            THEN /\ result' = "Ok"
                 /\ balance_in(balances', who) = balance_of(who) + value
                 /\ total_supply' = total_supply + value
            ELSE /\ result' = "NotIssuer"
                 /\ UNCHANGED <<total_supply, balances>>]_vars

\* C7: the issuer is the account that constructed the ledger.
C7_IssuerIsCreator == issuer = creator

\* C7 witness: MaxCalls calls after construction, the last a successful
\* issue, with tokens held by an account other than the creator.
C7_Witness ==
    /\ calls = MaxCalls
    /\ op = "issue"
    /\ result = "Ok"
    /\ \E a \in AccountId \ {creator} : balance_of(a) > 0

\* C8: transfer to an account other than the caller succeeds exactly when
\* balance_of(caller) >= value, and then takes value from the caller's
\* balance and adds value to the recipient's; otherwise it returns
\* InsufficentBalance.
C8_TransferMovesValue ==
    [][\A who \in AccountId, to \in AccountId, value \in Amount :
        (to # who /\ transfer_help(who, to, value)) =>
            IF balance_of(who) >= value
            THEN /\ result' = "Ok"
                 /\ balance_in(balances', who) = balance_of(who) - value
                 /\ balance_in(balances', to) = balance_of(to) + value
            ELSE result' = "InsufficentBalance"]_vars

\* C9: approve succeeds exactly when balance_of(owner) >= value, and then
\* takes value from the owner's balance and adds value to the existing
\* allowance(owner, spender); otherwise it returns InsufficentBalance.
C9_ApproveAccumulates ==
    [][\A who \in AccountId, spender \in AccountId, value \in Amount :
        approve_help(who, spender, value) =>
            IF balance_of(who) >= value
            THEN /\ result' = "Ok"
                 /\ balance_in(balances', who) = balance_of(who) - value
                 /\ GetOrZero(allowances', <<who, spender>>)
                        = allowance(who, spender) + value
            ELSE result' = "InsufficentBalance"]_vars

\* C10: transfer_from succeeds exactly when allowance(owner, caller) >= value,
\* and then takes value from allowance(owner, caller) and adds value to the
\* recipient's balance, leaving the owner's balance alone when the owner is
\* not the recipient; otherwise it returns InsufficentAllowance.
C10_TransferFromDrawsAllowance ==
    [][\A who \in AccountId, owner \in AccountId, to \in AccountId,
          value \in Amount :
        transfer_from_help(who, owner, to, value) =>
            IF allowance(owner, who) >= value
            THEN /\ result' = "Ok"
                 /\ GetOrZero(allowances', <<owner, who>>)
                        = allowance(owner, who) - value
                 /\ balance_in(balances', to) = balance_of(to) + value
                 /\ to # owner =>
                        balance_in(balances', owner) = balance_of(owner)
            ELSE result' = "InsufficentAllowance"]_vars

\* C11: burn succeeds exactly when balance_of(caller) >= value, and then takes
\* exactly value from the caller's balance and from total_supply; otherwise
\* it returns InsufficentBalance.
C11_BurnTakesValue ==
    [][op' = "burn" =>
        \A who \in AccountId, value \in Amount :
            burn_help(who, value) =>
                IF balance_of(who) >= value
                THEN /\ result' = "Ok"
                     /\ balance_in(balances', who) = balance_of(who) - value
                     /\ total_supply' = total_supply - value
                ELSE result' = "InsufficentBalance"]_vars

\* C12: construction succeeds and yields issuer = creator, the whole supply
\* in the creator's balance, balance 0 for every other account, allowance 0
\* for every pair, and one recorded event, Create.
C12_Construction ==
    calls = 0 =>
        /\ result = "Ok"
        /\ issuer = creator
        /\ total_supply \in Amount
        /\ balance_of(creator) = total_supply
        /\ \A a \in AccountId \ {creator} : balance_of(a) = 0
        /\ \A o \in AccountId, sp \in AccountId : allowance(o, sp) = 0
        /\ events_count = 1
        /\ last_event.kind = "Create"

\* C12 witness: the ledger as constructed with the largest supply.
C12_Witness ==
    /\ calls = 0
    /\ op = "new"
    /\ total_supply = MaxBalance
    /\ balance_of(creator) = MaxBalance

\* the event a successful call of message o is to record
ExpectedEvent(o, call) ==
    CASE o = "transfer" ->
            Transfer(call.caller, call.accounts[1], call.value)
      [] o = "approve" ->
            Approval(call.caller, call.accounts[1], call.value)
      [] o = "transfer_from" ->
            TransferFrom(call.caller, call.accounts[1], call.accounts[2],
                         call.value)
      [] o = "burn" -> Burn(call.caller, call.value)
      [] o = "issue" -> Issue(call.caller, call.value)

\* C13: the construction event carries the creator and the initial supply;
\* a message that returns Ok records exactly one event, of the message's
\* kind, carrying the caller, the accounts and the value of that call.
C13_EventMatchesCall ==
    /\ last_event = Create(creator, total_supply)
    /\ [][result' = "Ok" =>
            /\ events_count' = events_count + 1
            /\ last_event' = ExpectedEvent(op', last_ok')]_vars

\* C13 witness: a transfer_from by one account, against a second, to a third
\* has returned Ok and its event is the last one recorded.
C13_Witness ==
    /\ op = "transfer_from"
    /\ result = "Ok"
    /\ last_ok.value > 0
    /\ Cardinality({last_ok.caller, last_ok.accounts[1],
                    last_ok.accounts[2]}) = 3
    /\ last_event.kind = "TransferFrom"

\* balance_of reads the same before and after the step, but for the accounts
\* in except
BalancesSameExcept(except) ==
    \A a \in ((DOMAIN balances) \cup (DOMAIN balances')) \ except :
        balance_in(balances', a) = balance_of(a)

\* allowance reads the same before and after the step, but for the pairs in
\* except
AllowancesSameExcept(except) ==
    \A p \in ((DOMAIN allowances) \cup (DOMAIN allowances')) \ except :
        GetOrZero(allowances', p) = GetOrZero(allowances, p)

\* C14: a successful transfer, approve or transfer_from leaves total_supply
\* unchanged; a successful transfer, burn or issue leaves every allowance
\* unchanged; transfer changes no balance but the caller's and to's, approve
\* none but the owner's and no allowance but (owner, spender), transfer_from
\* no balance but to's and no allowance but (owner, caller), burn and issue
\* no balance but the caller's.
C14_Frame ==
    [][result' = "Ok" =>
        LET c == last_ok'
        IN  /\ op' = "transfer" =>
                /\ total_supply' = total_supply
                /\ AllowancesSameExcept({})
                /\ BalancesSameExcept({c.caller, c.accounts[1]})
            /\ op' = "approve" =>
                /\ total_supply' = total_supply
                /\ BalancesSameExcept({c.caller})
                /\ AllowancesSameExcept({<<c.caller, c.accounts[1]>>})
            /\ op' = "transfer_from" =>
                /\ total_supply' = total_supply
                /\ BalancesSameExcept({c.accounts[2]})
                /\ AllowancesSameExcept({<<c.accounts[1], c.caller>>})
            /\ op' \in {"burn", "issue"} =>
                /\ AllowancesSameExcept({})
                /\ BalancesSameExcept({c.caller})]_vars

\* C14 witness: a transfer_from of a positive value has succeeded against an
\* owner who holds a balance and is not the recipient.
C14_Witness ==
    /\ op = "transfer_from"
    /\ result = "Ok"
    /\ last_ok.value > 0
    /\ last_ok.accounts[1] # last_ok.accounts[2]
    /\ balance_of(last_ok.accounts[1]) > 0

\* C15: in every reachable state in which no call has stored a wrapped sum,
\* the sum of all balances plus the sum of all allowances equals
\* total_supply.
C15_HeldEqualsSupply ==
    ~overflowed =>
        SumValues(balances) + SumValues(allowances) = total_supply

\* C15 witness: with no overflow so far, tokens approved by the creator have
\* been credited by transfer_from to another account, and some remain in an
\* allowance.
C15_Witness ==
    /\ ~overflowed
    /\ op = "transfer_from"
    /\ result = "Ok"
    /\ last_ok.value > 0
    /\ SumValues(allowances) > 0
    /\ \E a \in AccountId \ {creator} : balance_of(a) > 0

\* C16: balance_of(a) decreases only in a successful transfer, approve or
\* burn called by a; allowance(o, s) increases only in a successful approve
\* called by o and decreases only in a successful transfer_from called by s;
\* total_supply increases only in a successful issue called by the issuer.
C16_Authorised ==
    [][/\ \A a \in AccountId :
            balance_in(balances', a) < balance_of(a) =>
                /\ result' = "Ok"
                /\ \E x \in AccountId, value \in Amount :
                    \/ transfer_help(a, x, value)
                    \/ approve_help(a, x, value)
                    \/ burn_help(a, value)
       /\ \A o \in AccountId, sp \in AccountId :
            /\ GetOrZero(allowances', <<o, sp>>) > allowance(o, sp) =>
                /\ result' = "Ok"
                /\ \E value \in Amount : approve_help(o, sp, value)
            /\ GetOrZero(allowances', <<o, sp>>) < allowance(o, sp) =>
                /\ result' = "Ok"
                /\ \E to \in AccountId, value \in Amount :
                    transfer_from_help(sp, o, to, value)
       /\ total_supply' > total_supply =>
            /\ result' = "Ok"
            /\ \E value \in Amount : issue_help(issuer, value)]_vars

\* C17: for every pair (owner, spender), the value drawn by the spender's
\* successful transfer_from calls never exceeds the value approved by the
\* owner's successful approve calls, and what is left of it is
\* allowance(owner, spender).
C17_AllowanceIsApprovedLessDrawn ==
    \A o \in AccountId, sp \in AccountId :
        /\ outstanding[<<o, sp>>] >= 0
        /\ outstanding[<<o, sp>>] = allowance(o, sp)

\* C18: a transfer to the caller of a value within the caller's balance
\* succeeds and leaves every balance, every allowance and total_supply
\* unchanged; a transfer_from whose recipient is the owner adds exactly value
\* to the owner's balance.
C18_SelfTransfer ==
    [][/\ op' = "transfer" =>
            \A who \in AccountId, value \in Amount :
                (value <= balance_of(who) /\ transfer_help(who, who, value))
                    => /\ result' = "Ok"
                       /\ total_supply' = total_supply
                       /\ BalancesSameExcept({})
                       /\ AllowancesSameExcept({})
       /\ op' = "transfer_from" =>
            \A who \in AccountId, owner \in AccountId, value \in Amount :
                (/\ value <= allowance(owner, who)
                 /\ transfer_from_help(who, owner, owner, value))
                    => /\ result' = "Ok"
                       /\ balance_in(balances', owner)
                              = balance_of(owner) + value]_vars

\* what a call with value 0 is to do: return Ok, record one event, keep every
\* stored entry and leave every read as it was
ZeroValueCall ==
    /\ result' = "Ok"
    /\ events_count' = events_count + 1
    /\ total_supply' = total_supply
    /\ DOMAIN balances \subseteq DOMAIN balances'
    /\ DOMAIN allowances \subseteq DOMAIN allowances'
    /\ BalancesSameExcept({})
    /\ AllowancesSameExcept({})

\* C19: transfer, approve, burn and transfer_from with value 0 succeed for
\* any caller and any accounts, stored or not, record one event and leave
\* every balance_of, allowance and total_supply read unchanged.  A step that
\* returns Ok with value 0 is such a call; a step that does not return Ok is
\* to be no call with value 0.
C19_ZeroValueSucceeds ==
    [][IF result' = "Ok"
       THEN (op' # "issue" /\ last_ok'.value = 0) => ZeroValueCall
       ELSE /\ op' = "transfer" =>
                \A who \in AccountId, to \in AccountId :
                    ~transfer_help(who, to, 0)
            /\ op' = "approve" =>
                \A who \in AccountId, sp \in AccountId :
                    ~approve_help(who, sp, 0)
            /\ op' = "transfer_from" =>
                \A who \in AccountId, owner \in AccountId,
                   to \in AccountId :
                    ~transfer_from_help(who, owner, to, 0)
            /\ op' = "burn" =>
                \A who \in AccountId : ~burn_help(who, 0)]_vars

\* C19 witness: the first call is a transfer_from with value 0 among accounts
\* with no stored entry; it has returned Ok and left explicit zero entries.
C19_Witness ==
    /\ calls = 1
    /\ op = "transfer_from"
    /\ result = "Ok"
    /\ last_ok.value = 0
    /\ creator \notin {last_ok.accounts[1], last_ok.accounts[2]}
    /\ allowances = Insert(EmptyMap,
                           <<last_ok.accounts[1], last_ok.caller>>, 0)
    /\ balances[last_ok.accounts[2]] = 0

====
